---- MODULE Spec2Model ----
(***************************************************************************)
(* A model of process_csv.py: SolanaVersionProcessor (read_csv,            *)
(* validate_versions, generate_dockerfiles, write_dockerfiles) and main.   *)
(*                                                                         *)
(* Strings the code looks into (cell values, paths, file contents) are     *)
(* sequences of one-character strings; the names of the CSV columns, which *)
(* the code only compares with constants, are TLA+ strings.                *)
(***************************************************************************)
EXTENDS Integers, Sequences, FiniteSets, TLC

(***************************************************************************)
(* Bounds of the model                                                     *)
(***************************************************************************)
\* data rows of the input file in a run of main
MaxRows == 2
\* records handed to one direct call of a method of the processor
MaxRecords == 2

(***************************************************************************)
(* Strings                                                                 *)
(***************************************************************************)
Digits == {"0", "1", "2", "3", "4", "5", "6", "7", "8", "9"}

\* the characters str.strip() and int() treat as white space
Whitespace == {" ", "\t", "\n", "\r"}

\* the value None, as DictReader stores it for the cells a short row lacks
None == <<"<None>">>

\* str(None), as an f-string formats it
NoneText == <<"N", "o", "n", "e">>

\* the key None, under which DictReader stores the cells a long row has
\* beyond the header
RestKey == "<None>"

\* the value as an f-string interpolates it
Str(v) == IF v = None THEN NoneText ELSE v

\* Python's truth value of a cell: None and '' are false
Truthy(v) == v # None /\ v # <<>>

RECURSIVE LStrip(_)
LStrip(s) ==
  IF s # <<>> /\ Head(s) \in Whitespace THEN LStrip(Tail(s)) ELSE s

RECURSIVE RStrip(_)
RStrip(s) ==
  IF s # <<>> /\ s[Len(s)] \in Whitespace
  THEN RStrip(SubSeq(s, 1, Len(s) - 1))
  ELSE s

\* the digits of a decimal literal: digits, with single underscores between
\* digits only
IsDecimalBody(s) ==
  /\ s # <<>>
  /\ s[1] \in Digits
  /\ s[Len(s)] \in Digits
  /\ \A i \in 1..Len(s) : s[i] \in Digits \cup {"_"}
  /\ \A i \in 1..(Len(s) - 1) : ~(s[i] = "_" /\ s[i + 1] = "_")

\* int(part) does not raise ValueError: white space around, an optional
\* sign, then a decimal literal
IntParses(s) ==
  LET t == RStrip(LStrip(s))
      u == IF t # <<>> /\ Head(t) \in {"+", "-"} THEN Tail(t) ELSE t
  IN  IsDecimalBody(u)

\* the index of the first sep in s, 0 when there is none
RECURSIVE IndexFrom(_, _, _)
IndexFrom(s, sep, i) ==
  IF i > Len(s) THEN 0
  ELSE IF s[i] = sep THEN i
  ELSE IndexFrom(s, sep, i + 1)

\* s.split(sep) for a one-character separator
RECURSIVE Split(_, _)
Split(s, sep) ==
  LET i == IndexFrom(s, sep, 1)
  IN  IF i = 0 THEN <<s>>
      ELSE <<SubSeq(s, 1, i - 1)>> \o Split(SubSeq(s, i + 1, Len(s)), sep)

(***************************************************************************)
(* SolanaVersionProcessor._is_valid_version_format                         *)
(***************************************************************************)
\* a variant that looks at the first three parts and lets more parts through
_is_valid_version_format_AtLeast3(version) ==
  LET parts == Split(version, ".")
  IN  IF Len(parts) < 3 THEN FALSE
      ELSE \A i \in 1..3 : IntParses(parts[i])

_is_valid_version_format(version) ==
  LET parts == Split(version, ".")
  IN  IF Len(parts) # 3 THEN FALSE
      ELSE \A i \in 1..3 : IntParses(parts[i])

(***************************************************************************)
(* SolanaVersionProcessor.validate_versions                                *)
(***************************************************************************)
required_fields == <<"version", "dockerfile_path">>

\* line 40: the field is not in the record, or its value is false
FieldMissing(version_data, field) ==
  \/ field \notin DOMAIN version_data
  \/ ~Truthy(version_data[field])

\* lines 39-48 for one record: the error it logs, <<>> when it passes
RowErrors(version_data, row) ==
  LET missing == {k \in 1..Len(required_fields) :
                    FieldMissing(version_data, required_fields[k])}
  IN  IF missing # {}
      THEN LET k == CHOOSE m \in missing : \A n \in missing : m <= n
           IN  <<[level |-> "error", kind |-> "missing_field", row |-> row,
                  field |-> required_fields[k]]>>
      ELSE IF ~_is_valid_version_format(version_data["version"])
      THEN <<[level |-> "error", kind |-> "invalid_format", row |-> row,
              version |-> version_data["version"]]>>
      ELSE <<>>

\* a variant that reports the 0-based index of enumerate as the row
RECURSIVE ValidateFrom_ZeroBased(_, _)
ValidateFrom_ZeroBased(versions, i) ==
  IF i >= Len(versions)
  THEN [ok |-> TRUE, log |-> <<>>, examined |-> Len(versions)]
  ELSE LET errors == RowErrors(versions[i + 1], i)
       IN  IF errors # <<>>
           THEN [ok |-> FALSE, log |-> errors, examined |-> i + 1]
           ELSE ValidateFrom_ZeroBased(versions, i + 1)

\* the loop of lines 38-50 from index i (0-based, as enumerate counts):
\* the value returned, the errors logged, the number of records looked at
RECURSIVE ValidateFrom(_, _)
ValidateFrom(versions, i) ==
  IF i >= Len(versions)
  THEN [ok |-> TRUE, log |-> <<>>, examined |-> Len(versions)]
  ELSE LET errors == RowErrors(versions[i + 1], i + 1)
       IN  IF errors # <<>>
           THEN [ok |-> FALSE, log |-> errors, examined |-> i + 1]
           ELSE ValidateFrom(versions, i + 1)

validate_versions(versions) == ValidateFrom(versions, 0)

(***************************************************************************)
(* SolanaVersionProcessor._generate_dockerfile_content                     *)
(***************************************************************************)
\* line 80: the default of version_data.get('base_image', ...)
DefaultBaseImage ==
  <<"u", "b", "u", "n", "t", "u", ":", "2", "0", ".", "0", "4">>

\* line 81: the default of version_data.get('additional_deps', ...)
DefaultAdditionalDeps == <<>>

\* dict.get(key, default): the default only when the key is not in the dict
Get(version_data, key, default) ==
  IF key \in DOMAIN version_data THEN version_data[key] ELSE default

\* process_csv.py:83  the template text before {base_image}
TemplateFrom ==
  <<
    "F", "R", "O", "M", " "
  >>

\* process_csv.py:83-85  the text between {base_image} and the first {version}
TemplateComment ==
  <<
    "\n", "\n", "#", " ", "I", "n", "s", "t", "a", "l", "l", " ", "S", "o",
    "l", "a", "n", "a", " ", "C", "L", "I", " ", "v", "e", "r", "s", "i",
    "o", "n", " "
  >>

\* process_csv.py:85-98  the text between the two {version} substitutions
TemplateInstall ==
  <<
    "\n", "R", "U", "N", " ", "a", "p", "t", "-", "g", "e", "t", " ", "u",
    "p", "d", "a", "t", "e", " ", "&", "&", " ", "a", "p", "t", "-", "g",
    "e", "t", " ", "i", "n", "s", "t", "a", "l", "l", " ", "-", "y", " ",
    "\\", "\n", " ", " ", " ", " ", "c", "u", "r", "l", " ", "\\", "\n", " ",
    " ", " ", " ", "b", "u", "i", "l", "d", "-", "e", "s", "s", "e", "n",
    "t", "i", "a", "l", " ", "\\", "\n", " ", " ", " ", " ", "p", "k", "g",
    "-", "c", "o", "n", "f", "i", "g", " ", "\\", "\n", " ", " ", " ", " ",
    "l", "i", "b", "u", "d", "e", "v", "-", "d", "e", "v", " ", "\\", "\n",
    " ", " ", " ", " ", "&", "&", " ", "r", "m", " ", "-", "r", "f", " ",
    "/", "v", "a", "r", "/", "l", "i", "b", "/", "a", "p", "t", "/", "l",
    "i", "s", "t", "s", "/", "*", "\n", "\n", "#", " ", "I", "n", "s", "t",
    "a", "l", "l", " ", "R", "u", "s", "t", "\n", "R", "U", "N", " ", "c",
    "u", "r", "l", " ", "-", "-", "p", "r", "o", "t", "o", " ", "'", "=",
    "h", "t", "t", "p", "s", "'", " ", "-", "-", "t", "l", "s", "v", "1",
    ".", "2", " ", "-", "s", "S", "f", " ", "h", "t", "t", "p", "s", ":",
    "/", "/", "s", "h", ".", "r", "u", "s", "t", "u", "p", ".", "r", "s",
    " ", "|", " ", "s", "h", " ", "-", "s", " ", "-", "-", " ", "-", "y",
    "\n", "E", "N", "V", " ", "P", "A", "T", "H", "=", "\"", "/", "r", "o",
    "o", "t", "/", ".", "c", "a", "r", "g", "o", "/", "b", "i", "n", ":",
    "$", "{", "P", "A", "T", "H", "}", "\"", "\n", "\n", "#", " ", "I", "n",
    "s", "t", "a", "l", "l", " ", "S", "o", "l", "a", "n", "a", " ", "C",
    "L", "I", "\n", "R", "U", "N", " ", "s", "h", " ", "-", "c", " ", "\"",
    "$", "(", "c", "u", "r", "l", " ", "-", "s", "S", "f", "L", " ", "h",
    "t", "t", "p", "s", ":", "/", "/", "r", "e", "l", "e", "a", "s", "e",
    ".", "s", "o", "l", "a", "n", "a", ".", "c", "o", "m", "/", "v"
  >>

\* process_csv.py:98-102  the text between the second {version} and {additional_deps}
TemplateDeps ==
  <<
    "/", "i", "n", "s", "t", "a", "l", "l", ")", "\"", "\n", "E", "N", "V",
    " ", "P", "A", "T", "H", "=", "\"", "/", "r", "o", "o", "t", "/", ".",
    "l", "o", "c", "a", "l", "/", "s", "h", "a", "r", "e", "/", "s", "o",
    "l", "a", "n", "a", "/", "i", "n", "s", "t", "a", "l", "l", "/", "a",
    "c", "t", "i", "v", "e", "_", "r", "e", "l", "e", "a", "s", "e", "/",
    "b", "i", "n", ":", "$", "{", "P", "A", "T", "H", "}", "\"", "\n", "\n",
    "#", " ", "I", "n", "s", "t", "a", "l", "l", " ", "a", "d", "d", "i",
    "t", "i", "o", "n", "a", "l", " ", "d", "e", "p", "e", "n", "d", "e",
    "n", "c", "i", "e", "s", " ", "i", "f", " ", "s", "p", "e", "c", "i",
    "f", "i", "e", "d", "\n"
  >>

\* process_csv.py:102-105  the text after {additional_deps}
TemplateTail ==
  <<
    "\n", "\n", "W", "O", "R", "K", "D", "I", "R", " ", "/", "w", "o", "r",
    "k", "s", "p", "a", "c", "e", "\n"
  >>

\* a variant whose install line does not name the version
_generate_dockerfile_content_NoUrlVersion(version_data) ==
  LET version == version_data["version"]
      base_image == Get(version_data, "base_image", DefaultBaseImage)
      additional_deps ==
        Get(version_data, "additional_deps", DefaultAdditionalDeps)
  IN  TemplateFrom \o Str(base_image)
        \o TemplateComment \o Str(version)
        \o TemplateInstall
        \o TemplateDeps \o Str(additional_deps)
        \o TemplateTail

_generate_dockerfile_content(version_data) ==
  LET version == version_data["version"]
      base_image == Get(version_data, "base_image", DefaultBaseImage)
      additional_deps ==
        Get(version_data, "additional_deps", DefaultAdditionalDeps)
  IN  TemplateFrom \o Str(base_image)
        \o TemplateComment \o Str(version)
        \o TemplateInstall \o Str(version)
        \o TemplateDeps \o Str(additional_deps)
        \o TemplateTail

(***************************************************************************)
(* SolanaVersionProcessor.generate_dockerfiles                             *)
(***************************************************************************)
PathPrefix == <<"d", "o", "c", "k", "e", "r", "/", "v">>

PathSuffix ==
  <<".", "D", "o", "c", "k", "e", "r", "f", "i", "l", "e">>

\* line 72: f"docker/v{version}.Dockerfile"
DockerfilePath(version) == PathPrefix \o Str(version) \o PathSuffix

\* a variant that keeps the value of a key already there
DictSet_FirstWins(items, key, value) ==
  IF \E i \in 1..Len(items) : items[i].path = key
  THEN items
  ELSE Append(items, [path |-> key, content |-> value])

\* dockerfiles[key] = value on a dict kept as the sequence of its items, in
\* insertion order: a key already there keeps its place and takes the value
DictSet(items, key, value) ==
  IF \E i \in 1..Len(items) : items[i].path = key
  THEN [i \in 1..Len(items) |->
          IF items[i].path = key
          THEN [path |-> key, content |-> value]
          ELSE items[i]]
  ELSE Append(items, [path |-> key, content |-> value])

\* the loop of lines 69-73 over the first n records
RECURSIVE GenerateUpTo(_, _)
GenerateUpTo(versions, n) ==
  IF n = 0 THEN <<>>
  ELSE DictSet(GenerateUpTo(versions, n - 1),
               DockerfilePath(versions[n]["version"]),
               _generate_dockerfile_content(versions[n]))

generate_dockerfiles(versions) == GenerateUpTo(versions, Len(versions))

(***************************************************************************)
(* The file system: the directories that exist and the regular files with  *)
(* their contents.  A relative path with no '/' lies in the working        *)
(* directory, which always exists and is written as the empty path.        *)
(***************************************************************************)
RECURSIVE LastIndex(_, _, _)
LastIndex(s, sep, i) ==
  IF i = 0 THEN 0
  ELSE IF s[i] = sep THEN i
  ELSE LastIndex(s, sep, i - 1)

\* Path(p).parent
Parent(path) ==
  LET i == LastIndex(path, "/", Len(path))
  IN  IF i = 0 THEN <<>> ELSE SubSeq(path, 1, i - 1)

IsDir(fs, path) == path = <<>> \/ path \in fs.dirs

IsFile(fs, path) == path \in DOMAIN fs.files

\* Path.mkdir(parents=..., exist_ok=True): FileExistsError when the path is
\* a regular file, FileNotFoundError when the parent is missing and parents
\* is false, NotADirectoryError when an ancestor is a regular file
RECURSIVE Mkdir(_, _, _)
Mkdir(fs, path, parents) ==
  IF IsDir(fs, path) THEN [raised |-> FALSE, fs |-> fs]
  ELSE IF IsFile(fs, path) THEN [raised |-> TRUE, fs |-> fs]
  ELSE IF IsDir(fs, Parent(path))
  THEN [raised |-> FALSE, fs |-> [fs EXCEPT !.dirs = @ \cup {path}]]
  ELSE IF ~parents THEN [raised |-> TRUE, fs |-> fs]
  ELSE LET up == Mkdir(fs, Parent(path), TRUE)
       IN  IF up.raised THEN up
           ELSE [raised |-> FALSE,
                 fs |-> [up.fs EXCEPT !.dirs = @ \cup {path}]]

\* the file at path holds content afterwards
PutFile(fs, path, content) ==
  [fs EXCEPT !.files =
     [p \in DOMAIN fs.files \cup {path} |->
        IF p = path THEN content ELSE fs.files[p]]]

\* open(path, 'w') raises: the path is a directory or its parent is missing
OpenRaises(fs, path) == IsDir(fs, path) \/ ~IsDir(fs, Parent(path))

(***************************************************************************)
(* SolanaVersionProcessor.write_dockerfiles                                *)
(*                                                                         *)
(* fault is the operating system's part: which call of the method, if any, *)
(* fails for a reason outside the model (permissions, a full disk).        *)
(*   at = 0, op = "none"    no such failure                                *)
(*   at = 0, op = "mkdir"   output_path.mkdir fails (line 111)             *)
(*   at = k, op = "mkdir"   full_path.parent.mkdir fails for item k (117)  *)
(*   at = k, op = "open"    open fails for item k (line 119)               *)
(*   at = k, op = "write"   f.write fails for item k (line 120), after     *)
(*                          open has truncated the file; keep characters   *)
(*                          of the content have reached the file           *)
(***************************************************************************)
NoFault == [at |-> 0, op |-> "none", keep |-> 0]

Faults(n) ==
  {NoFault, [at |-> 0, op |-> "mkdir", keep |-> 0]}
    \cup [at : 1..n, op : {"mkdir", "open"}, keep : {0}]
    \cup [at : 1..n, op : {"write"}, keep : {0, Len(TemplateFrom)}]

\* a variant that goes on to the next item when open fails
RECURSIVE WriteFrom_SkipFailed(_, _, _, _, _, _)
WriteFrom_SkipFailed(items, k, fs, written, log, fault) ==
  IF k > Len(items)
  THEN [raised |-> FALSE, fs |-> fs, written |-> written, log |-> log]
  ELSE
    LET full_path == items[k].path
        content == items[k].content
        made == Mkdir(fs, Parent(full_path), TRUE)
    IN  IF (fault.at = k /\ fault.op = "mkdir") \/ made.raised
        THEN [raised |-> TRUE, fs |-> fs, written |-> written, log |-> log]
        ELSE IF (fault.at = k /\ fault.op = "open")
                  \/ OpenRaises(made.fs, full_path)
        THEN WriteFrom_SkipFailed(items, k + 1, made.fs, written, log, fault)
        ELSE IF fault.at = k /\ fault.op = "write"
        THEN [raised |-> TRUE,
              fs |-> PutFile(made.fs, full_path,
                             SubSeq(content, 1, fault.keep)),
              written |-> written, log |-> log]
        ELSE WriteFrom_SkipFailed(items, k + 1,
                       PutFile(made.fs, full_path, content),
                       Append(written, full_path),
                       Append(log, [level |-> "info", kind |-> "generated",
                                    path |-> full_path]),
                       fault)

\* the loop of lines 115-122 from item k on; written lists the paths whose
\* file has been written in full, log the lines logged
RECURSIVE WriteFrom(_, _, _, _, _, _)
WriteFrom(items, k, fs, written, log, fault) ==
  IF k > Len(items)
  THEN [raised |-> FALSE, fs |-> fs, written |-> written, log |-> log]
  ELSE
    LET full_path == items[k].path
        content == items[k].content
        made == Mkdir(fs, Parent(full_path), TRUE)
    IN  IF (fault.at = k /\ fault.op = "mkdir") \/ made.raised
        THEN [raised |-> TRUE, fs |-> fs, written |-> written, log |-> log]
        ELSE IF (fault.at = k /\ fault.op = "open")
                  \/ OpenRaises(made.fs, full_path)
        THEN [raised |-> TRUE, fs |-> made.fs, written |-> written,
              log |-> log]
        ELSE IF fault.at = k /\ fault.op = "write"
        THEN [raised |-> TRUE,
              fs |-> PutFile(made.fs, full_path,
                             SubSeq(content, 1, fault.keep)),
              written |-> written, log |-> log]
        ELSE WriteFrom(items, k + 1,
                       PutFile(made.fs, full_path, content),
                       Append(written, full_path),
                       Append(log, [level |-> "info", kind |-> "generated",
                                    path |-> full_path]),
                       fault)

write_dockerfiles(versions, output_dir, fs, fault) ==
  LET made == Mkdir(fs, output_dir, FALSE)
  IN  IF (fault.at = 0 /\ fault.op = "mkdir") \/ made.raised
      THEN [raised |-> TRUE, fs |-> fs, written |-> <<>>, log |-> <<>>,
            dockerfiles |-> <<>>]
      ELSE LET dockerfiles == generate_dockerfiles(versions)
               done == WriteFrom(dockerfiles, 1, made.fs, <<>>, <<>>, fault)
           IN  [raised |-> done.raised, fs |-> done.fs,
                written |-> done.written, log |-> done.log,
                dockerfiles |-> dockerfiles]

(***************************************************************************)
(* SolanaVersionProcessor.read_csv                                         *)
(*                                                                         *)
(* The file is the sequence of rows csv.reader yields, each the sequence   *)
(* of its cells; the first is the header.                                  *)
(***************************************************************************)
\* the last column of the header with this name, as dict(zip(...)) keeps it
LastColumn(fieldnames, key) ==
  CHOOSE i \in 1..Len(fieldnames) :
    /\ fieldnames[i] = key
    /\ \A j \in (i + 1)..Len(fieldnames) : fieldnames[j] # key

\* csv.DictReader.__next__ for one row that is not empty
DictRow(fieldnames, row) ==
  LET lf == Len(fieldnames)
      lr == Len(row)
      named == {fieldnames[i] : i \in 1..lf}
      keys == IF lf < lr THEN named \cup {RestKey} ELSE named
  IN  [key \in keys |->
         IF key \in named
         THEN LET i == LastColumn(fieldnames, key)
              IN  IF i <= lr THEN row[i] ELSE None
         ELSE SubSeq(row, lf + 1, lr)]

\* the rows of the sequence that are not empty, in order
RECURSIVE NonEmptyRows(_)
NonEmptyRows(rows) ==
  IF rows = <<>> THEN <<>>
  ELSE IF Head(rows) = <<>> THEN NonEmptyRows(Tail(rows))
  ELSE <<Head(rows)>> \o NonEmptyRows(Tail(rows))

\* lines 28-29: [row for row in csv.DictReader(csvfile)]
DictReader(rows) ==
  IF rows = <<>> THEN <<>>
  ELSE LET fieldnames == Head(rows)
           data == NonEmptyRows(Tail(rows))
       IN  [i \in 1..Len(data) |-> DictRow(fieldnames, data[i])]

\* lines 24-32: what read_csv raises, loads and logs
read_csv(exists, readable, rows) ==
  IF ~exists
  THEN [raised |-> "FileNotFoundError", versions |-> <<>>, log |-> <<>>]
  ELSE IF ~readable
  THEN [raised |-> "OSError", versions |-> <<>>, log |-> <<>>]
  ELSE LET versions == DictReader(rows)
       IN  [raised |-> "none", versions |-> versions,
            log |-> <<[level |-> "info", kind |-> "loaded",
                       count |-> Len(versions)]>>]

(***************************************************************************)
(* The inputs the model draws from                                         *)
(***************************************************************************)
Docker == <<"d", "o", "c", "k", "e", "r">>

Out == <<"o", "u", "t">>

Nested == <<"b", "u", "i", "l", "d", "/", "d", "o", "c", "k", "e", "r">>

Ubuntu2204 == <<"u", "b", "u", "n", "t", "u", ":", "2", "2", ".", "0", "4">>

RunX == <<"R", "U", "N", " ", "x">>

X == <<"x">>

Y == <<"y">>

Old == <<"o", "l", "d">>

V_1_14_23 == <<"1", ".", "1", "4", ".", "2", "3">>

V_2_0_1 == <<"2", ".", "0", ".", "1">>

V_1_14 == <<"1", ".", "1", "4">>

V_neg == <<"-", "1", ".", "2", ".", "3">>

\* the sequences over S of length at most n
SeqsUpTo(S, n) == UNION {[1..k -> S] : k \in 0..n}

\* line 108: the default of the parameter output_dir
DefaultOutputDir == Docker

\* headers: the two required columns, all four columns, and one without the
\* column dockerfile_path
Headers ==
  {<<"version", "dockerfile_path">>,
   <<"version", "dockerfile_path", "base_image", "additional_deps">>,
   <<"version", "base_image">>}

\* data rows; what a cell means depends on the header above it.  The empty
\* row is a blank line of the file.
Rows ==
  {<<V_1_14_23, X>>,
   <<V_1_14_23, Y, Ubuntu2204, RunX>>,
   <<V_2_0_1, X, <<>>, <<>>>>,
   <<V_neg, X>>,
   <<V_1_14, X>>,
   <<<<>>, X>>,
   <<V_2_0_1>>,
   <<>>}

\* input files of a run of main: empty, or a header and at most MaxRows rows
CsvFiles ==
  {<<>>} \cup {<<h>> \o rows : h \in Headers, rows \in SeqsUpTo(Rows, MaxRows)}

EmptyFs == [dirs |-> {}, files |-> <<>>]

\* the file system a run starts from: empty; the output directory there with
\* a recipe file of an earlier run; a regular file in the place of the
\* output directory
InitialFileSystems ==
  {EmptyFs,
   PutFile([dirs |-> {Docker}, files |-> <<>>], DockerfilePath(V_1_14_23),
           Old),
   PutFile(EmptyFs, Docker, Old)}

\* the values of output_dir of a direct call of write_dockerfiles
OutputDirs == {Docker, Out, Nested}

VersionSamples ==
  {
   <<"1", ".", "1", "4", ".", "2", "3">>,
   <<"2", ".", "0", ".", "1">>,
   <<"0", "1", ".", "0", "2", ".", "0", "3">>,
   <<"-", "1", ".", "2", ".", "3">>,
   <<"1", ".", "+", "2", ".", "3">>,
   <<" ", "1", ".", "2", ".", "3">>,
   <<"1", ".", "2", ".", "3", " ">>,
   <<"1", "_", "0", ".", "2", ".", "3">>,
   <<"1", ".", "2", ".", "3", "\n">>,
   <<"1", ".", "1", "4">>,
   <<"1">>,
   <<>>,
   <<"1", ".", "2", ".", "3", ".", "4">>,
   <<"1", ".", ".", "3">>,
   <<".", "1", ".", "2">>,
   <<"1", ".", "2", ".">>,
   <<"1", ".", "x", ".", "3">>,
   <<"a", ".", "b", ".", "c">>,
   <<"1", ".", "2", ".", "-">>,
   <<"1", ".", "2", ".", "3", "-">>,
   <<"1", ".", "_", "2", ".", "3">>,
   <<"1", ".", "2", "_", "_", "0", ".", "3">>,
   <<"1", ".", " ", ".", "3">>,
   <<"-", "-", "1", ".", "2", ".", "3">>,
   <<"1", ".", "2", ".", "+", " ", "3">>,
   <<"v", "1", ".", "2", ".", "3">>
  }

\* records for a direct call of validate_versions: every sample version with
\* a dockerfile_path, and the ways a required field is missing
RecordSamples ==
  {[version |-> v, dockerfile_path |-> X] : v \in VersionSamples}
    \cup {[version |-> V_1_14_23, dockerfile_path |-> d] : d \in {None, <<>>}}
    \cup {[version |-> v, dockerfile_path |-> X] : v \in {None}}
    \cup {[version |-> V_1_14_23], [dockerfile_path |-> X],
          [version |-> V_1_14, dockerfile_path |-> <<>>],
          [version |-> <<>>, dockerfile_path |-> None],
          [base_image |-> Ubuntu2204]}

\* records that pass validation, for a direct call of generate_dockerfiles
RunWithVersion ==
  <<"R", "U", "N", " ", "v", "1", ".", "1", "4", ".", "2", "3">>

ValidRecordSamples ==
  {[version |-> V_1_14_23, dockerfile_path |-> X],
   [version |-> V_2_0_1, dockerfile_path |-> X],
   [version |-> V_neg, dockerfile_path |-> X],
   [version |-> V_1_14_23, dockerfile_path |-> Y, base_image |-> Ubuntu2204],
   [version |-> V_1_14_23, dockerfile_path |-> Y, base_image |-> <<>>,
    additional_deps |-> <<>>],
   [version |-> V_2_0_1, dockerfile_path |-> Y, base_image |-> Ubuntu2204,
    additional_deps |-> RunX],
   [version |-> V_2_0_1, dockerfile_path |-> Y, base_image |-> None,
    additional_deps |-> None],
   [version |-> V_1_14_23, dockerfile_path |-> X,
    additional_deps |-> RunWithVersion],
   [version |-> V_2_0_1, dockerfile_path |-> X, base_image |-> <<>>],
   [version |-> V_1_14_23, dockerfile_path |-> X, additional_deps |-> <<>>]}

\* records that pass validation, for a direct call of write_dockerfiles
WriteRecordSamples ==
  {[version |-> V_1_14_23, dockerfile_path |-> X],
   [version |-> V_2_0_1, dockerfile_path |-> X],
   [version |-> V_neg, dockerfile_path |-> X],
   [version |-> V_1_14_23, dockerfile_path |-> Y, base_image |-> Ubuntu2204]}

(***************************************************************************)
(* State                                                                   *)
(***************************************************************************)
VARIABLES
  pc,            \* where the run is
  argv_len,      \* len(sys.argv)
  csv_exists,    \* self.csv_file_path.exists()
  csv_readable,  \* the file opens and decodes as UTF-8 text
  csv_rows,      \* the rows of the file
  versions,      \* self.versions
  output_dir,    \* the argument of write_dockerfiles
  fs,            \* the file system
  fs0,           \* the file system when the run started
  log,           \* the lines logged or printed, in order
  validation,    \* what validate_versions returned, logged and looked at
  dockerfiles,   \* what generate_dockerfiles returned
  written,       \* the paths write_dockerfiles has written in full
  raised,        \* the exception that ended the call, "none" if none
  exit_code      \* the exit code of the process, -1 while it runs

vars ==
  <<pc, argv_len, csv_exists, csv_readable, csv_rows, versions, output_dir,
    fs, fs0, log, validation, dockerfiles, written, raised, exit_code>>

NotValidated == [ok |-> FALSE, log |-> <<>>, examined |-> 0]

\* the state after construction (lines 18-20), common to every specification
Fresh ==
  /\ fs0 = fs
  /\ log = <<>>
  /\ validation = NotValidated
  /\ dockerfiles = <<>>
  /\ written = <<>>
  /\ raised = "none"
  /\ exit_code = -1

(***************************************************************************)
(* main                                                                    *)
(***************************************************************************)
Init ==
  /\ pc = "start"
  /\ argv_len \in {1, 2, 3}
  /\ csv_exists \in BOOLEAN
  /\ csv_readable \in BOOLEAN
  /\ csv_rows \in CsvFiles
  /\ csv_exists = FALSE => csv_readable = FALSE
  /\ csv_readable = FALSE => csv_rows = <<>>
  /\ argv_len # 2 => Len(csv_rows) <= 1
  /\ versions = <<>>
  /\ output_dir = DefaultOutputDir
  /\ fs \in InitialFileSystems
  /\ Fresh

\* sys.exit(code)
Exit(code) == pc' = "exit" /\ exit_code' = code

\* lines 126-130
Main_CheckArgs ==
  /\ pc = "start"
  /\ IF argv_len # 2
     THEN /\ log' = Append(log, [level |-> "stdout", kind |-> "usage"])
          /\ Exit(1)
     ELSE /\ pc' = "try"
          /\ UNCHANGED <<log, exit_code>>
  /\ UNCHANGED <<argv_len, csv_exists, csv_readable, csv_rows, versions,
                 output_dir, fs, fs0, validation, dockerfiles, written,
                 raised>>

\* a variant of the handler that leaves the exit code of a normal return
Caught_ExitZero(lines, exception) ==
  /\ log' = log \o lines
              \o <<[level |-> "error", kind |-> "error_processing_csv",
                    exception |-> exception]>>
  /\ raised' = exception
  /\ Exit(0)

\* lines 143-145: the handler of the try block
Caught(lines, exception) ==
  /\ log' = log \o lines
              \o <<[level |-> "error", kind |-> "error_processing_csv",
                    exception |-> exception]>>
  /\ raised' = exception
  /\ Exit(1)

\* lines 133-134
Main_ReadCsv ==
  /\ pc = "try"
  /\ LET r == read_csv(csv_exists, csv_readable, csv_rows)
     IN  IF r.raised # "none"
         THEN /\ Caught(r.log, r.raised)
              /\ UNCHANGED versions
         ELSE /\ versions' = r.versions
              /\ log' = log \o r.log
              /\ pc' = "loaded"
              /\ UNCHANGED <<raised, exit_code>>
  /\ UNCHANGED <<argv_len, csv_exists, csv_readable, csv_rows, output_dir,
                 fs, fs0, validation, dockerfiles, written>>

\* a variant that logs the failure and goes on to the write phase
Main_Validate_WriteAnyway ==
  /\ pc = "loaded"
  /\ LET v == validate_versions(versions)
     IN  /\ validation' = v
         /\ log' = log \o v.log
         /\ pc' = "validated"
         /\ UNCHANGED exit_code
  /\ UNCHANGED <<argv_len, csv_exists, csv_readable, csv_rows, versions,
                 output_dir, fs, fs0, dockerfiles, written, raised>>

\* lines 136-138
Main_Validate ==
  /\ pc = "loaded"
  /\ LET v == validate_versions(versions)
     IN  /\ validation' = v
         /\ IF ~v.ok
            THEN /\ log' = log \o v.log
                             \o <<[level |-> "error",
                                   kind |-> "validation_failed"]>>
                 /\ Exit(1)
            ELSE /\ log' = log \o v.log
                 /\ pc' = "validated"
                 /\ UNCHANGED exit_code
  /\ UNCHANGED <<argv_len, csv_exists, csv_readable, csv_rows, versions,
                 output_dir, fs, fs0, dockerfiles, written, raised>>

\* lines 140-141, and 143-145 when write_dockerfiles raises
Main_Write ==
  /\ pc = "validated"
  /\ \E fault \in Faults(Len(generate_dockerfiles(versions))) :
       LET w == write_dockerfiles(versions, DefaultOutputDir, fs, fault)
       IN  /\ fs' = w.fs
           /\ written' = w.written
           /\ dockerfiles' = w.dockerfiles
           /\ IF w.raised
              THEN Caught(w.log, "OSError")
              ELSE /\ log' = log \o w.log
                              \o <<[level |-> "info", kind |-> "completed"]>>
                   /\ Exit(0)
                   /\ UNCHANGED raised
  /\ UNCHANGED <<argv_len, csv_exists, csv_readable, csv_rows, versions,
                 output_dir, fs0, validation>>

Next == Main_CheckArgs \/ Main_ReadCsv \/ Main_Validate \/ Main_Write

Spec == Init /\ [][Next]_vars

(***************************************************************************)
(* Direct calls of the methods of a processor whose versions are loaded    *)
(***************************************************************************)
\* the state of a processor with these records, before the call at pc
Loaded(call, records) ==
  /\ pc = call
  /\ argv_len = 2
  /\ csv_exists = TRUE
  /\ csv_readable = TRUE
  /\ csv_rows = <<>>
  /\ versions \in records

InitValidate ==
  /\ Loaded("call_validate", SeqsUpTo(RecordSamples, MaxRecords))
  /\ output_dir = DefaultOutputDir
  /\ fs = EmptyFs
  /\ Fresh

\* processor.validate_versions()
Call_validate_versions ==
  /\ pc = "call_validate"
  /\ LET v == validate_versions(versions)
     IN  /\ validation' = v
         /\ log' = log \o v.log
  /\ pc' = "returned"
  /\ UNCHANGED <<argv_len, csv_exists, csv_readable, csv_rows, versions,
                 output_dir, fs, fs0, dockerfiles, written, raised,
                 exit_code>>

NextValidate == Call_validate_versions

SpecValidate == InitValidate /\ [][NextValidate]_vars

InitGenerate ==
  /\ Loaded("call_generate", SeqsUpTo(ValidRecordSamples, MaxRecords))
  /\ output_dir = DefaultOutputDir
  /\ fs = EmptyFs
  /\ Fresh

\* processor.generate_dockerfiles()
Call_generate_dockerfiles ==
  /\ pc = "call_generate"
  /\ dockerfiles' = generate_dockerfiles(versions)
  /\ pc' = "returned"
  /\ UNCHANGED <<argv_len, csv_exists, csv_readable, csv_rows, versions,
                 output_dir, fs, fs0, log, validation, written, raised,
                 exit_code>>

NextGenerate == Call_generate_dockerfiles

SpecGenerate == InitGenerate /\ [][NextGenerate]_vars

InitWrite ==
  /\ Loaded("call_write", SeqsUpTo(WriteRecordSamples, MaxRecords))
  /\ output_dir \in OutputDirs
  /\ fs \in InitialFileSystems
  /\ Fresh

\* processor.write_dockerfiles(output_dir)
Call_write_dockerfiles ==
  /\ pc = "call_write"
  /\ \E fault \in Faults(Len(generate_dockerfiles(versions))) :
       LET w == write_dockerfiles(versions, output_dir, fs, fault)
       IN  /\ fs' = w.fs
           /\ written' = w.written
           /\ dockerfiles' = w.dockerfiles
           /\ log' = log \o w.log
           /\ raised' = IF w.raised THEN "OSError" ELSE "none"
  /\ pc' = "returned"
  /\ UNCHANGED <<argv_len, csv_exists, csv_readable, csv_rows, versions,
                 output_dir, fs0, validation, exit_code>>

NextWrite == Call_write_dockerfiles

SpecWrite == InitWrite /\ [][NextWrite]_vars

(***************************************************************************)
(* Properties                                                              *)
(***************************************************************************)
\* the number of places of text where pat occurs
CountOccurrences(text, pat) ==
  Cardinality({i \in 1..(Len(text) - Len(pat) + 1) :
                 \A j \in 1..Len(pat) : text[i + j - 1] = pat[j]})

StartsWith(text, pat) ==
  /\ Len(pat) <= Len(text)
  /\ SubSeq(text, 1, Len(pat)) = pat

\* path is dir or lies below dir
Under(path, dir) ==
  \/ path = dir
  \/ /\ Len(path) > Len(dir) + 1
     /\ SubSeq(path, 1, Len(dir)) = dir
     /\ path[Len(dir) + 1] = "/"

\* the field is present and its value is a non-empty string
HasValue(record, field) ==
  /\ field \in DOMAIN record
  /\ record[field] # None
  /\ record[field] # <<>>

\* the version splits on '.' into exactly 3 parts that parse as integers
ThreeIntegerParts(version) ==
  /\ Len(Split(version, ".")) = 3
  /\ \A i \in 1..Len(Split(version, ".")) :
       IntParses(Split(version, ".")[i])

RecordPasses(record) ==
  /\ HasValue(record, "version")
  /\ HasValue(record, "dockerfile_path")
  /\ ThreeIntegerParts(record["version"])

\* 'docker/v<version>.Dockerfile'
ExpectedPath(version) ==
  <<"d", "o", "c", "k", "e", "r", "/", "v">> \o version
    \o <<".", "D", "o", "c", "k", "e", "r", "f", "i", "l", "e">>

\* the paths of the recipe files of the loaded records, in the order of the
\* first record of each version
RecipePaths == [k \in 1..Len(generate_dockerfiles(versions)) |->
                  generate_dockerfiles(versions)[k].path]

\* no later record has the version of record i
LastOfItsVersion(i) ==
  \A j \in (i + 1)..Len(versions) :
    versions[j]["version"] # versions[i]["version"]

\* the content generate_dockerfiles returned for the path
ContentAt(path) ==
  LET k == CHOOSE k \in 1..Len(dockerfiles) : dockerfiles[k].path = path
  IN  dockerfiles[k].content

EndsWith(text, pat) ==
  /\ Len(pat) <= Len(text)
  /\ SubSeq(text, Len(text) - Len(pat) + 1, Len(text)) = pat

\* the paths the run has created or changed
Changed ==
  (fs.dirs \ fs0.dirs)
    \cup {p \in DOMAIN fs.files :
            p \notin DOMAIN fs0.files \/ fs.files[p] # fs0.files[p]}

\* C1 (as stated): a run of main ends with every recipe file written or with
\* none written, also when a directory creation or a file write fails
\* part-way through the write phase.
C1_AllOrNothing ==
  pc = "exit" =>
    \/ validation.ok /\ written = RecipePaths
    \/ written = <<>>

\* C1 (amended): a run of main ends in one of three ways: with exit code 0,
\* every record validated and every recipe file written; with exit code 1
\* and no recipe file written; or with exit code 1 after an I/O error in the
\* write phase, every record validated, and exactly the recipe files before
\* the failing one written, each in full.
C1_AllNoneOrPrefix ==
  pc = "exit" =>
    \/ exit_code = 0 /\ validation.ok /\ written = RecipePaths
    \/ exit_code = 1 /\ written = <<>>
    \/ /\ exit_code = 1
       /\ raised = "OSError"
       /\ validation.ok
       /\ Len(written) < Len(RecipePaths)
       /\ written = SubSeq(RecipePaths, 1, Len(written))
       /\ \A k \in 1..Len(written) :
            fs.files[written[k]] = generate_dockerfiles(versions)[k].content

\* a run that an I/O error stopped after the first of several recipe files
C1_Witness ==
  /\ pc = "exit"
  /\ raised = "OSError"
  /\ Len(written) >= 1
  /\ Len(written) < Len(RecipePaths)

\* C2: in a run of main whose input file does not exist, or whose loaded
\* records validate_versions rejects, the file system never differs from
\* the one the run started with; and no run touches the file system before
\* read_csv and validate_versions have returned.
C2_NoWriteOnBadInput ==
  /\ pc \in {"start", "try", "loaded"} => fs = fs0
  /\ ~csv_exists => fs = fs0
  /\ (csv_readable /\ ~validate_versions(DictReader(csv_rows)).ok)
       => fs = fs0

\* a run that ended on the rejection of a row with version '1.14'
C2_Witness ==
  /\ pc = "exit"
  /\ exit_code = 1
  /\ validation.examined > 0
  /\ ~validation.ok
  /\ versions[validation.examined]["version"] = V_1_14
  /\ fs = fs0

\* C3: validate_versions returns true exactly when every record has a
\* non-empty version, a non-empty dockerfile_path, and a version of exactly 3
\* dot-separated parts that each parse as an integer.
C3_TrueIffEveryRecordPasses ==
  pc = "returned" =>
    (validation.ok <=> \A i \in 1..Len(versions) : RecordPasses(versions[i]))

\* validate_versions returned true for several records
C3_Witness ==
  /\ pc = "returned"
  /\ validation.ok
  /\ validation.examined >= 2

\* C4: main exits with 0 exactly when the argument count is right, the file
\* was loaded, every record validated and the write phase wrote every recipe
\* file without raising; every other run exits with 1.
C4_ExitCode ==
  pc = "exit" =>
    /\ exit_code \in {0, 1}
    /\ (exit_code = 0) <=>
         (/\ argv_len = 2
          /\ csv_exists
          /\ csv_readable
          /\ versions = DictReader(csv_rows)
          /\ \A i \in 1..Len(versions) : RecordPasses(versions[i])
          /\ raised = "none"
          /\ \A i \in 1..Len(versions) :
               /\ \E k \in 1..Len(written) :
                    written[k] = ExpectedPath(versions[i]["version"])
               /\ ExpectedPath(versions[i]["version"]) \in DOMAIN fs.files)

\* a run that wrote recipe files and exited with 0
C4_Witness ==
  /\ pc = "exit"
  /\ exit_code = 0
  /\ Len(written) >= 1

\* 'FROM ubuntu:20.04'
FromDefaultImage ==
  <<"F", "R", "O", "M", " ",
    "u", "b", "u", "n", "t", "u", ":", "2", "0", ".", "0", "4">>

\* the field is absent or is the empty string
AbsentOrEmpty(record, field) ==
  field \notin DOMAIN record \/ record[field] = <<>>

\* C5 (as stated): the content of a record whose base_image is absent or
\* empty starts with 'FROM ubuntu:20.04', and the content of a record whose
\* additional_deps is absent or empty has nothing at the place of the
\* additional dependencies.
C5_DefaultsWhenAbsentOrEmpty ==
  pc = "returned" =>
    \A i \in 1..Len(versions) :
      LastOfItsVersion(i) =>
        LET record == versions[i]
            content == ContentAt(ExpectedPath(record["version"]))
        IN  /\ AbsentOrEmpty(record, "base_image")
                 => StartsWith(content, FromDefaultImage)
            /\ AbsentOrEmpty(record, "additional_deps")
                 => EndsWith(content, TemplateDeps \o TemplateTail)

\* C6: after a run of main that exits with 0, every record has its recipe
\* file at 'docker/v<version>.Dockerfile', written once, holding the content
\* of the last record of that version; every file written is the recipe file
\* of some record, and every other file is as it was.
C6_OneFilePerVersionLastWins ==
  (pc = "exit" /\ exit_code = 0) =>
    /\ \A i \in 1..Len(versions) :
         LET path == ExpectedPath(versions[i]["version"])
             last == CHOOSE j \in 1..Len(versions) :
                       /\ versions[j]["version"] = versions[i]["version"]
                       /\ LastOfItsVersion(j)
         IN  /\ path \in DOMAIN fs.files
             /\ Cardinality({k \in 1..Len(written) : written[k] = path}) = 1
             /\ fs.files[path] = _generate_dockerfile_content(versions[last])
    /\ \A k \in 1..Len(written) :
         \E i \in 1..Len(versions) :
           written[k] = ExpectedPath(versions[i]["version"])
    /\ \A p \in DOMAIN fs.files :
         (\A k \in 1..Len(written) : written[k] # p)
           => p \in DOMAIN fs0.files /\ fs.files[p] = fs0.files[p]

\* a successful run over two records of one version with different contents
C6_Witness ==
  /\ pc = "exit"
  /\ exit_code = 0
  /\ \E i, j \in 1..Len(versions) :
       /\ i < j
       /\ versions[i]["version"] = versions[j]["version"]
       /\ _generate_dockerfile_content(versions[i])
            # _generate_dockerfile_content(versions[j])
       /\ fs.files[ExpectedPath(versions[i]["version"])]
            # _generate_dockerfile_content(versions[i])

\* C7 (as stated): every directory and file write_dockerfiles(output_dir)
\* creates or changes lies under output_dir.
C7_OnlyUnderOutputDir ==
  pc = "returned" => \A p \in Changed : Under(p, output_dir)

\* a version of three dot-separated numerals made of digits only
PlainVersion(version) ==
  /\ Len(Split(version, ".")) = 3
  /\ \A i \in 1..Len(Split(version, ".")) :
       LET part == Split(version, ".")[i]
       IN  /\ part # <<>>
           /\ \A k \in 1..Len(part) : part[k] \in Digits

\* C8 (as stated): every record that reaches the write phase has a version
\* of three dot-separated non-negative integer numerals, without a sign.
C8_OnlyPlainVersions ==
  pc = "validated" =>
    \A i \in 1..Len(versions) : PlainVersion(versions[i]["version"])

\* the first check the record fails: the presence of version, then of
\* dockerfile_path, then the shape of the version
FirstFailingCheck(record) ==
  IF ~HasValue(record, "version") THEN "version"
  ELSE IF ~HasValue(record, "dockerfile_path") THEN "dockerfile_path"
  ELSE "shape"

\* C9: when validate_versions returns false it logs one error, which carries
\* the 1-based index of the first record that fails a check and names the
\* first check that record fails, and it has looked at no record after it.
C9_StopsAtFirstFailure ==
  (pc = "returned" /\ ~validation.ok) =>
    LET failing == {i \in 1..Len(versions) : ~RecordPasses(versions[i])}
        first == CHOOSE i \in failing : \A j \in failing : i <= j
        check == FirstFailingCheck(versions[first])
    IN  /\ failing # {}
        /\ Len(validation.log) = 1
        /\ validation.log[1].row = first
        /\ validation.examined = first
        /\ IF check = "shape"
           THEN validation.log[1].kind = "invalid_format"
           ELSE /\ validation.log[1].kind = "missing_field"
                /\ validation.log[1].field = check

\* validate_versions stopped at a first record although the second fails too
C9_Witness ==
  /\ pc = "returned"
  /\ ~validation.ok
  /\ validation.examined = 1
  /\ Len(versions) >= 2
  /\ ~RecordPasses(versions[2])

\* 'v<version>'
VersionTag(version) == <<"v">> \o version

\* '# Install Solana CLI version <version>' and the end of the line
CommentLine(version) ==
  <<"#", " ", "I", "n", "s", "t", "a", "l", "l", " ", "S", "o", "l", "a", "n",
    "a", " ", "C", "L", "I", " ", "v", "e", "r", "s", "i", "o", "n", " ">>
    \o version \o <<"\n">>

\* 'https://release.solana.com/v<version>/install'
InstallUrl(version) ==
  <<"h", "t", "t", "p", "s", ":", "/", "/", "r", "e", "l", "e", "a", "s",
    "e", ".", "s", "o", "l", "a", "n", "a", ".", "c", "o", "m", "/">>
    \o VersionTag(version) \o <<"/", "i", "n", "s", "t", "a", "l", "l">>

\* the text the record puts at the place of the field has no letter v
NoLetterV(record, field, default) ==
  LET text == Str(Get(record, field, default))
  IN  \A k \in 1..Len(text) : text[k] # "v"

\* C10 (as stated): the content of a record has the version once in the
\* comment line and 'v<version>' exactly twice, in download URLs.
C10_VersionTagTwice ==
  pc = "returned" =>
    \A i \in 1..Len(versions) :
      LastOfItsVersion(i) =>
        LET version == versions[i]["version"]
            content == ContentAt(ExpectedPath(version))
        IN  /\ CountOccurrences(content, CommentLine(version)) = 1
            /\ CountOccurrences(content, VersionTag(version)) = 2

\* C10 (amended): the content of a record whose base_image and
\* additional_deps text has no letter v has the version once in the comment
\* line and 'v<version>' exactly once, in the one download URL
\* 'https://release.solana.com/v<version>/install'.
C10_VersionTagOnce ==
  pc = "returned" =>
    \A i \in 1..Len(versions) :
      (/\ LastOfItsVersion(i)
       /\ NoLetterV(versions[i], "base_image", DefaultBaseImage)
       /\ NoLetterV(versions[i], "additional_deps", DefaultAdditionalDeps)) =>
        LET version == versions[i]["version"]
            content == ContentAt(ExpectedPath(version))
        IN  /\ CountOccurrences(content, CommentLine(version)) = 1
            /\ CountOccurrences(content, VersionTag(version)) = 1
            /\ CountOccurrences(content, InstallUrl(version)) = 1

\* the record of version 1.14.23 with base image ubuntu:22.04
C10_Witness ==
  /\ pc = "returned"
  /\ \E k \in 1..Len(dockerfiles) :
       /\ dockerfiles[k].path = ExpectedPath(V_1_14_23)
       /\ StartsWith(dockerfiles[k].content, TemplateFrom \o Ubuntu2204)
       /\ CountOccurrences(dockerfiles[k].content, VersionTag(V_1_14_23)) = 1

====
